---- MODULE Spec2Model ----
(***************************************************************************)
(* A model of aisap: the Go package (helpers/offset.go and the aisap      *)
(* package that defines AppImage) and the Zig implementation of AppImage  *)
(* (getKind, getOffsetFromElf, getOffsetFromShimg).                       *)
(*                                                                         *)
(* Files are sequences of bytes (0..255).  Two specifications share the   *)
(* variables:                                                              *)
(*   SpecOffset  one file on disk, probed by the detection and the        *)
(*               offset functions of both implementations;                 *)
(*   Spec        two AppImage values of the Go package in one process,    *)
(*               with the package's global variables and the directories  *)
(*               on disk.                                                  *)
(***************************************************************************)
EXTENDS Integers, Sequences, FiniteSets, TLC

VARIABLES
    file,       \* SpecOffset: the bytes of the file under inspection
    fixture,    \* SpecOffset: how `file` was built (never read by the code)
    ret,        \* SpecOffset: the last call and what it returned
    scan,       \* SpecOffset: the line loop in progress, if any
    g,          \* Spec: the Go package's global variables
    ai,         \* Spec: the AppImage values (one per handle)
    os,         \* Spec: the operating system: user, directories, mounts
    last        \* Spec: the last call made, its arguments and its outcome

vars == <<file, fixture, ret, scan, g, ai, os, last>>
offsetVars == <<file, fixture, ret, scan>>
aisapVars == <<g, ai, os, last>>

(***************************************************************************)
(* Bytes and strings                                                       *)
(***************************************************************************)
Min(a, b) == IF a < b THEN a ELSE b

\* "\x7fELF"
ElfMagic == <<127, 69, 76, 70>>
\* "AI\x01"
MagicType1 == <<65, 73, 1>>
\* "AI\x02"
MagicType2 == <<65, 73, 2>>
\* "AI"
MagicAI == <<65, 73>>
\* "#!/bin/sh\n#.shImg.#"
ShImgMagic == <<35, 33, 47, 98, 105, 110, 47, 115, 104, 10,
                35, 46, 115, 104, 73, 109, 103, 46, 35>>
\* "sfs_offset="
SfsPrefix == <<115, 102, 115, 95, 111, 102, 102, 115, 101, 116, 61>>

\* The bytes of s from index lo to the end (Go's s[lo:], 0-based lo).
From(s, lo) == SubSeq(s, lo + 1, Len(s))

\* The elements of s that are not in `drop`, in order.
RECURSIVE Without(_, _)
Without(s, drop) ==
    IF s = <<>> THEN <<>>
    ELSE IF Head(s) \in drop THEN Without(Tail(s), drop)
    ELSE <<Head(s)>> \o Without(Tail(s), drop)

\* The pieces of s between occurrences of sep (Go's strings.Split).
RECURSIVE SplitAt(_, _, _)
SplitAt(s, sep, acc) ==
    IF s = <<>> THEN <<acc>>
    ELSE IF Head(s) = sep THEN <<acc>> \o SplitAt(Tail(s), sep, <<>>)
    ELSE SplitAt(Tail(s), sep, Append(acc, Head(s)))

Split(s, sep) == SplitAt(s, sep, <<>>)

(***************************************************************************)
(* Results: what a call returned.  st is "ok", "err" or "panic"; val is   *)
(* the value returned beside the error (Go returns both); kind is the     *)
(* Zig enum value getKind returns.                                         *)
(***************************************************************************)
Ok(v) == [st |-> "ok", val |-> v, err |-> "nil", kind |-> "-"]
Err(v, e) == [st |-> "err", val |-> v, err |-> e, kind |-> "-"]
Panic(e) == [st |-> "panic", val |-> 0, err |-> e, kind |-> "-"]
\* A value of the Zig enum Kind.
OkKind(k) == [st |-> "ok", val |-> 0, err |-> "nil", kind |-> k]

(***************************************************************************)
(* Go: helpers/offset.go, detection                                        *)
(***************************************************************************)
\* HasMagic: seek to `offset`, io.ReadFull len(str) bytes (a short read is an
\* error, hence false), then compare byte by byte.
HasMagic(f, str, offset) ==
    /\ Len(f) >= offset + Len(str)
    /\ \A i \in 1..Len(str) : f[offset + i] = str[i]

\* GetAppImageType: 1, 2, 0 (valid ELF, no AppImage magic), -2 (shappimage),
\* or -1 with an error.
GetAppImageType(f) ==
    IF HasMagic(f, ElfMagic, 0)
    THEN IF HasMagic(f, MagicType1, 8) THEN Ok(1)
         ELSE IF HasMagic(f, MagicType2, 8) THEN Ok(2)
         ELSE Ok(0)
    ELSE IF HasMagic(f, ShImgMagic, 0) THEN Ok(-2)
    ELSE Err(-1, "unable to get AppImage type")

(***************************************************************************)
(* ELF headers.  Offsets are those of Elf32_Ehdr and Elf64_Ehdr; numbers  *)
(* are decoded from the file's bytes in the byte order e_ident declares.  *)
(* TLC's integers are 32 bits wide, so the fixtures keep every field and  *)
(* every sum under 2^31; wider values are outside the model.              *)
(***************************************************************************)
\* The value of a big-endian byte string.
RECURSIVE BigEndian(_)
BigEndian(s) ==
    IF s = <<>> THEN 0
    ELSE BigEndian(SubSeq(s, 1, Len(s) - 1)) * 256 + s[Len(s)]

Reverse(s) == [i \in 1..Len(s) |-> s[Len(s) + 1 - i]]

\* binary.Read / std.elf's int(): w bytes at 0-based offset off, in byte
\* order `data` (1 = ELFDATA2LSB, 2 = ELFDATA2MSB).
ReadUint(f, off, w, data) ==
    LET b == SubSeq(f, off + 1, off + w)
    IN  IF data = 2 THEN BigEndian(b) ELSE BigEndian(Reverse(b))

\* The fields getElfSize and getOffsetFromElf use, read with the layout of
\* class `class` (1 = ELFCLASS32, 2 = ELFCLASS64).
ElfHeader(f, class, data) ==
    IF class = 2
    THEN [version   |-> ReadUint(f, 20, 4, data),
          shoff     |-> ReadUint(f, 40, 8, data),
          shentsize |-> ReadUint(f, 58, 2, data),
          shnum     |-> ReadUint(f, 60, 2, data),
          shstrndx  |-> ReadUint(f, 62, 2, data)]
    ELSE [version   |-> ReadUint(f, 20, 4, data),
          shoff     |-> ReadUint(f, 32, 4, data),
          shentsize |-> ReadUint(f, 46, 2, data),
          shnum     |-> ReadUint(f, 48, 2, data),
          shstrndx  |-> ReadUint(f, 50, 2, data)]

\* Size of the ELF header of a class, and of one section header.
EhdrSize(class) == IF class = 2 THEN 64 ELSE 52
ShdrSize(class) == IF class = 2 THEN 64 ELSE 40

\* debug/elf's NewFile, as far as the header goes: it rejects a bad magic
\* number, an unknown class, an unknown data encoding, an unknown version
\* and an inconsistent section table declaration.  The section table itself
\* (which NewFile also reads) lies past the header and is not modelled.
ElfNewFile(f) ==
    IF Len(f) < 16 THEN Err(0, "EOF")
    ELSE IF ~HasMagic(f, ElfMagic, 0) THEN Err(0, "bad magic number")
    ELSE IF f[5] \notin {1, 2} THEN Err(0, "unknown ELF class")
    ELSE IF f[6] \notin {1, 2} THEN Err(0, "unknown ELF data encoding")
    ELSE IF f[7] # 1 THEN Err(0, "unknown ELF version")
    ELSE IF Len(f) < EhdrSize(f[5]) THEN Err(0, "unexpected EOF")
    ELSE LET h == ElfHeader(f, f[5], f[6])
         IN  IF h.version # 1 THEN Err(0, "mismatched ELF version")
             ELSE IF h.shoff = 0 /\ h.shnum # 0
                  THEN Err(0, "invalid ELF shnum for shoff=0")
             ELSE IF h.shnum > 0 /\ h.shstrndx >= h.shnum
                  THEN Err(0, "invalid ELF shstrndx")
             ELSE IF h.shnum > 0 /\ h.shentsize < ShdrSize(f[5])
                  THEN Err(0, "invalid ELF shentsize")
             ELSE Ok(f[5])

\* The switch of getElfSize on a class, after NewFile: both cases re-read the
\* header with binary.Read; any other class returns (0, nil).
ElfSizeOfClass(f, class) ==
    IF class \in {1, 2}
    THEN IF Len(f) < EhdrSize(class) THEN Err(-1, "unexpected EOF")
         ELSE LET hdr == ElfHeader(f, class, f[6])
              IN  Ok(hdr.shoff + (hdr.shentsize * hdr.shnum))
    ELSE Ok(0)

\* A getElfSize that switches on the class byte before it looks at NewFile's
\* error: the default case is reached.
getElfSizeClassFirst(f) ==
    IF Len(f) >= 5 /\ f[5] \notin {1, 2} THEN ElfSizeOfClass(f, f[5])
    ELSE LET e == ElfNewFile(f)
         IN  IF e.st # "ok" THEN Err(-1, e.err) ELSE ElfSizeOfClass(f, e.val)

\* getElfSize: NewFile's error first, then the switch on e.Class.
getElfSize(f) ==
    LET e == ElfNewFile(f)
    IN  IF e.st # "ok" THEN Err(-1, e.err)
        ELSE ElfSizeOfClass(f, e.val)

(***************************************************************************)
(* Lines of a file                                                         *)
(***************************************************************************)
\* The line that starts at 0-based offset pos (pos < Len(f)): its text
\* without the newline, and the offset after it.  The last line may lack
\* its newline.
NextLine(f, pos) ==
    IF \E i \in (pos + 1)..Len(f) : f[i] = 10
    THEN LET nl == CHOOSE i \in (pos + 1)..Len(f) :
                       f[i] = 10 /\ \A j \in (pos + 1)..(i - 1) : f[j] # 10
         IN  [text |-> SubSeq(f, pos + 1, nl - 1), next |-> nl]
    ELSE [text |-> SubSeq(f, pos + 1, Len(f)), next |-> Len(f)]

\* bufio.ScanLines drops one trailing carriage return.
DropCR(t) ==
    IF Len(t) > 0 /\ t[Len(t)] = 13 THEN SubSeq(t, 1, Len(t) - 1) ELSE t

(***************************************************************************)
(* Go: getShappImageSize                                                   *)
(***************************************************************************)
\* The digits of strconv.Atoi, most significant first.
RECURSIVE AtoiDigits(_, _)
AtoiDigits(s, acc) ==
    IF s = <<>> THEN Ok(acc)
    ELSE IF Head(s) \in 48..57
         THEN AtoiDigits(Tail(s), acc * 10 + (Head(s) - 48))
         ELSE Err(0, "strconv.Atoi: invalid syntax")

\* strconv.Atoi: an optional sign, then decimal digits, at least one.
Atoi(s) ==
    LET signed == s # <<>> /\ Head(s) \in {43, 45}
        body == IF signed THEN Tail(s) ELSE s
        r == AtoiDigits(body, 0)
    IN  IF body = <<>> THEN Err(0, "strconv.Atoi: invalid syntax")
        ELSE IF r.st = "ok" /\ signed /\ Head(s) = 45 THEN Ok(0 - r.val)
        ELSE r

\* The condition of the scan loop on one line of text.
GoLineMatches(text) ==
    /\ Len(text) > 10
    /\ SubSeq(text, 1, 11) = SfsPrefix
    /\ Len(Split(text, 61)) = 2

\* The body of the matching branch: the text after "=", every quote
\* character removed, through Atoi; (o, err) is returned as it is.
GoLineValue(text) ==
    LET offHex == Without(Split(text, 61)[2], {39, 34})
    IN  Atoi(offHex)

GoNotFound ==
    Err(-1, "unable to find shappimage offset from sfs_offset variable")

\* One turn of the loop of getShappImageSize with the scanner at 0-based
\* offset pos: scanner.Scan() fails at the end of the file and the function
\* returns its last line; a matching line returns; any other line goes on.
\* There is no bound on the number of lines.
GoScanStep(f, pos) ==
    IF pos >= Len(f)
    THEN [done |-> TRUE, res |-> GoNotFound, next |-> pos]
    ELSE LET l == NextLine(f, pos)
             text == DropCR(l.text)
         IN  IF GoLineMatches(text)
             THEN [done |-> TRUE, res |-> GoLineValue(text), next |-> l.next]
             ELSE [done |-> FALSE, res |-> GoNotFound, next |-> l.next]

RECURSIVE GoScanFrom(_, _)
GoScanFrom(f, pos) ==
    LET s == GoScanStep(f, pos)
    IN  IF s.done THEN s.res ELSE GoScanFrom(f, s.next)

getShappImageSize(f) == GoScanFrom(f, 0)

\* GetOffset: the type first, then the function for that type.
GetOffset(f) ==
    LET format == GetAppImageType(f)
    IN  IF format.st # "ok" THEN Err(-1, format.err)
        ELSE IF format.val = -2 THEN getShappImageSize(f)
        ELSE IF format.val = 2 THEN getElfSize(f)
        ELSE IF format.val = 0
             THEN Err(-1, "AppImage missing AI 0x02 magic at offset 0x08!")
        ELSE Err(-1, "unsupported AppImage type")

(***************************************************************************)
(* Zig: getKind, getOffsetFromElf, getOffsetFromShimg                      *)
(***************************************************************************)
\* var buf: [19]u8
ProbeLen == 19
\* if (line > 512) return error.NotShimg
MaxLines == 512
\* var buf: [256]u8, the line buffer
LineBufLen == 256

\* getKind: readAll into 19 bytes; a short read is InvalidFormat.
getKind(f) ==
    LET read_len == Min(ProbeLen, Len(f))
    IN  IF read_len < ProbeLen THEN Err(0, "InvalidFormat")
        ELSE IF SubSeq(f, 1, ProbeLen) = ShImgMagic THEN OkKind("shimg")
        ELSE IF SubSeq(f, 1, 4) = ElfMagic
             THEN IF SubSeq(f, 9, 10) # MagicAI THEN Err(0, "InvalidFromat")
                  ELSE IF f[11] = 1 THEN OkKind("type1")
                  ELSE IF f[11] = 2 THEN OkKind("type2")
                  ELSE Err(0, "UnknownAppImageVersion")
        ELSE Err(0, "InvalidFormat")

\* std.elf.Header.read: 64 bytes are read whatever the class, then the
\* magic, the version, the byte order and the class are checked.
ZigHeaderRead(f) ==
    IF Len(f) < 64 THEN Err(0, "EndOfStream")
    ELSE IF SubSeq(f, 1, 4) # ElfMagic THEN Err(0, "InvalidElfMagic")
    ELSE IF f[7] # 1 THEN Err(0, "InvalidElfVersion")
    ELSE IF f[6] \notin {1, 2} THEN Err(0, "InvalidElfEndian")
    ELSE IF f[5] \notin {1, 2} THEN Err(0, "InvalidElfClass")
    ELSE Ok(f[5])

\* header.shentsize * header.shnum with the product in `prod`: both operands
\* are u16 and so is the product.  Overflow is checked illegal behaviour: a
\* panic in Debug and ReleaseSafe builds, a wrapped product in ReleaseFast and
\* ReleaseSmall builds.
MulU16(prod) ==
    IF prod < 65536 THEN {Ok(prod)}
    ELSE {Panic("integer overflow"), Ok(prod % 65536)}

\* getOffsetFromElf: the outcomes the builds can produce.
getOffsetFromElf(f) ==
    LET h == ZigHeaderRead(f)
    IN  IF h.st # "ok" THEN {h}
        ELSE LET header == ElfHeader(f, f[5], f[6])
             IN  {IF m.st = "ok" THEN Ok(header.shoff + m.val) ELSE m :
                      m \in MulU16(header.shentsize * header.shnum)}

\* std.fmt.charToDigit
CharToDigit(c) ==
    IF c \in 48..57 THEN c - 48
    ELSE IF c \in 65..90 THEN c - 65 + 10
    ELSE IF c \in 97..122 THEN c - 97 + 10
    ELSE 99

\* The digit loop of std.fmt.parseInt for a u64: underscores are skipped, a
\* character that is no digit of the base is InvalidCharacter, and a negative
\* number other than zero overflows.
RECURSIVE ParseDigits(_, _, _, _)
ParseDigits(s, base, neg, acc) ==
    IF s = <<>> THEN Ok(acc)
    ELSE IF Head(s) = 95 THEN ParseDigits(Tail(s), base, neg, acc)
    ELSE IF CharToDigit(Head(s)) >= base THEN Err(0, "InvalidCharacter")
    ELSE IF neg /\ CharToDigit(Head(s)) > 0 THEN Err(0, "Overflow")
    ELSE ParseDigits(Tail(s), base, neg, acc * base + CharToDigit(Head(s)))

ToLower(c) == IF c \in 65..90 THEN c + 32 ELSE c

\* std.fmt.parseInt(u64, buf, 0): a sign, then with base 0 a prefix 0b, 0o
\* or 0x chooses the base (decimal without one).
ParseIntU64(buf) ==
    LET signed == buf # <<>> /\ Head(buf) \in {43, 45}
        neg == signed /\ Head(buf) = 45
        b == IF signed THEN Tail(buf) ELSE buf
        prefixed == Len(b) > 2 /\ b[1] = 48 /\ ToLower(b[2]) \in {98, 111, 120}
        base == IF ~prefixed THEN 10
                ELSE IF ToLower(b[2]) = 98 THEN 2
                ELSE IF ToLower(b[2]) = 111 THEN 8
                ELSE 16
        digits == IF prefixed THEN SubSeq(b, 3, Len(b)) ELSE b
    IN  IF b = <<>> THEN Err(0, "InvalidCharacter")
        ELSE IF digits[1] = 95 \/ digits[Len(digits)] = 95
             THEN Err(0, "InvalidCharacter")
        ELSE ParseDigits(digits, base, neg, 0)

\* std.mem.tokenize(u8, text, "="): the pieces between "=" that are not empty.
Tokenize(text, sep) == SelectSeq(Split(text, sep), LAMBDA t : t # <<>>)

\* The matching branch of getOffsetFromShimg: the first token is thrown
\* away, the second goes through parseInt as it is.
ZigLineValue(text) ==
    LET it == Tokenize(text, 61)
    IN  IF Len(it) < 2 THEN Err(0, "NotShimg")
        ELSE ParseIntU64(it[2])

\* One turn of the loop of getOffsetFromShimg with the reader at 0-based
\* offset pos and `line` lines read so far.  `examined` says whether the
\* text of the line read was compared with the prefix.
ZigScanStep(f, pos, line) ==
    IF pos >= Len(f)
    THEN [done |-> TRUE, res |-> Err(0, "InvalidFormat"), next |-> pos,
          examined |-> FALSE]
    ELSE LET l == NextLine(f, pos)
             text == l.text
         IN  IF Len(text) > LineBufLen
             THEN [done |-> TRUE, res |-> Err(0, "StreamTooLong"),
                   next |-> l.next, examined |-> FALSE]
             ELSE IF line + 1 > MaxLines
             THEN [done |-> TRUE, res |-> Err(0, "NotShimg"),
                   next |-> l.next, examined |-> FALSE]
             ELSE IF Len(text) > 10 /\ SubSeq(text, 1, 11) = SfsPrefix
             THEN [done |-> TRUE, res |-> ZigLineValue(text),
                   next |-> l.next, examined |-> TRUE]
             ELSE [done |-> FALSE, res |-> Err(0, "InvalidFormat"),
                   next |-> l.next, examined |-> TRUE]

RECURSIVE ZigScanFrom(_, _, _)
ZigScanFrom(f, pos, line) ==
    LET s == ZigScanStep(f, pos, line)
    IN  IF s.done THEN s.res ELSE ZigScanFrom(f, s.next, line + 1)

getOffsetFromShimg(f) == ZigScanFrom(f, 0, 0)

(***************************************************************************)
(* Fixtures: the files the functions above are run on.  A fixture records *)
(* what a file was built from; the code only ever sees the bytes.         *)
(***************************************************************************)
\* How many lines past MaxLines the first sfs_offset line may lie.
ExtraLines == 2

\* n in w bytes, least significant first.
RECURSIVE LittleEndian(_, _)
LittleEndian(n, w) ==
    IF w = 0 THEN <<>> ELSE <<n % 256>> \o LittleEndian(n \div 256, w - 1)

\* n in w bytes in byte order data.
Enc(n, w, data) ==
    IF data = 2 THEN Reverse(LittleEndian(n, w)) ELSE LittleEndian(n, w)

Zeros(n) == [i \in 1..n |-> 0]

MarkerBytes(marker) ==
    IF marker = "type1" THEN MagicType1
    ELSE IF marker = "type2" THEN MagicType2
    ELSE <<0, 0, 0>>

\* The first 64 bytes of an ELF file: e_ident with the AppImage marker at
\* offset 8, then the header of the class (a 32-bit header is followed by
\* the start of the program header table, here zeros).
ElfBytes(x) ==
    LET d == x.data
        shstrndx == IF x.shnum > 0 THEN x.shnum - 1 ELSE 0
        ident == <<127, 69, 76, 70, x.class, d, 1, 0>>
                     \o MarkerBytes(x.marker) \o Zeros(5)
    IN  IF x.class = 1
        THEN ident \o Enc(2, 2, d) \o Enc(3, 2, d) \o Enc(1, 4, d)
                 \o Enc(0, 4, d) \o Enc(52, 4, d) \o Enc(x.shoff, 4, d)
                 \o Enc(0, 4, d) \o Enc(52, 2, d) \o Enc(32, 2, d)
                 \o Enc(0, 2, d) \o Enc(x.shentsize, 2, d)
                 \o Enc(x.shnum, 2, d) \o Enc(shstrndx, 2, d) \o Zeros(12)
        ELSE ident \o Enc(2, 2, d) \o Enc(62, 2, d) \o Enc(1, 4, d)
                 \o Enc(0, 8, d) \o Enc(64, 8, d) \o Enc(x.shoff, 8, d)
                 \o Enc(0, 4, d) \o Enc(64, 2, d) \o Enc(56, 2, d)
                 \o Enc(0, 2, d) \o Enc(x.shentsize, 2, d)
                 \o Enc(x.shnum, 2, d) \o Enc(shstrndx, 2, d)

ElfFixtures ==
    [kind : {"elf"}, class : {0, 1, 2, 3}, data : {1, 2},
     marker : {"type1", "type2", "none"},
     shoff : {0, 4096, 191000}, shentsize : {40, 64, 72},
     shnum : {0, 3, 1024, 65279}]

\* A well-formed ELF header: a known class and a section table declaration
\* that is consistent with it.
WellFormedElf(x) ==
    /\ x.kind = "elf"
    /\ x.class \in {1, 2}
    /\ x.shoff = 0 => x.shnum = 0
    /\ x.shnum > 0 => x.shentsize >= ShdrSize(x.class)

\* The decimal digits of n, as characters.
RECURSIVE Dec(_)
Dec(n) == IF n < 10 THEN <<48 + n>> ELSE Dec(n \div 10) \o <<48 + (n % 10)>>

HexDigit(d) == IF d < 10 THEN 48 + d ELSE 97 + (d - 10)

\* The hexadecimal digits of n, as characters.
RECURSIVE Hex(_)
Hex(n) ==
    IF n < 16 THEN <<HexDigit(n)>>
    ELSE Hex(n \div 16) \o <<HexDigit(n % 16)>>

\* The ways a value is written after "sfs_offset=" that the format allows.
GoodFormats == {"dec", "hex", "sqdec", "dqdec", "sqhex", "dqhex"}
\* Other lines that begin with the prefix.
BadFormats == {"word", "empty"}

ValueText(v, fmt) ==
    CASE fmt = "dec"   -> Dec(v)
      [] fmt = "hex"   -> <<48, 120>> \o Hex(v)
      [] fmt = "sqdec" -> <<39>> \o Dec(v) \o <<39>>
      [] fmt = "dqdec" -> <<34>> \o Dec(v) \o <<34>>
      [] fmt = "sqhex" -> <<39, 48, 120>> \o Hex(v) \o <<39>>
      [] fmt = "dqhex" -> <<34, 48, 120>> \o Hex(v) \o <<34>>
      [] fmt = "word"  -> <<97, 98, 99>>
      [] fmt = "empty" -> <<>>

\* A shappimage: the two lines of the magic, `filler` empty lines, then
\* (unless fmt is "none") the sfs_offset line, then (with `second`) another
\* sfs_offset line with a different value, then "exit".
ShBytes(x) ==
    ShImgMagic \o <<10>> \o [i \in 1..x.filler |-> 10]
        \o (IF x.fmt = "none" THEN <<>>
            ELSE SfsPrefix \o ValueText(x.v, x.fmt) \o <<10>>)
        \o (IF x.second THEN SfsPrefix \o Dec(x.v + 1) \o <<10>> ELSE <<>>)
        \o <<101, 120, 105, 116, 10>>

\* The 1-based number of the first line that begins with the prefix.
FirstMatchLine(x) == 2 + x.filler + 1

FillerCounts == {0, 1} \cup {MaxLines - 3 + k : k \in 0..ExtraLines}

ShFixtures ==
    [kind : {"sh"}, filler : FillerCounts, v : {0, 4096, 191000},
     fmt : GoodFormats \cup BadFormats, second : BOOLEAN]
    \cup [kind : {"sh"}, filler : FillerCounts, v : {0}, fmt : {"none"},
          second : {FALSE}]

\* Files cut short: the first n bytes of a full file.
ShortBases ==
    {[kind |-> "elf", class |-> 2, data |-> 1, marker |-> m, shoff |-> 4096,
      shentsize |-> 64, shnum |-> 3] : m \in {"type1", "type2", "none"}}
    \cup {[kind |-> "sh", filler |-> 0, v |-> 4096, fmt |-> "dec",
           second |-> FALSE]}

FullBytes(x) == IF x.kind = "elf" THEN ElfBytes(x) ELSE ShBytes(x)

ShortFixtures == [kind : {"short"}, base : ShortBases, n : 0..(ProbeLen - 1)]

Fixtures == ElfFixtures \cup ShFixtures \cup ShortFixtures

Bytes(x) ==
    IF x.kind = "short" THEN SubSeq(FullBytes(x.base), 1, x.n)
    ELSE FullBytes(x)

(***************************************************************************)
(* SpecOffset: one file, and calls of the functions above on it.  A call  *)
(* returns before the next one starts.  The two line loops advance one    *)
(* line per step; scan.line counts the lines whose text the loop has      *)
(* compared with the prefix.                                               *)
(***************************************************************************)
Idle == [impl |-> "idle", pos |-> 0, line |-> 0]

\* What `op` returned, after comparing `lines` lines with the prefix.
Ret(op, r, lines) ==
    [op |-> op, st |-> r.st, val |-> r.val, err |-> r.err, kind |-> r.kind,
     lines |-> lines]

Running(op) ==
    [op |-> op, st |-> "running", val |-> 0, err |-> "nil", kind |-> "-",
     lines |-> 0]

NoCall == Running("none")

CallGetAppImageType ==
    /\ scan = Idle
    /\ ret' = Ret("GetAppImageType", GetAppImageType(file), 0)
    /\ UNCHANGED <<file, fixture, scan, aisapVars>>

CallGetKind ==
    /\ scan = Idle
    /\ ret' = Ret("getKind", getKind(file), 0)
    /\ UNCHANGED <<file, fixture, scan, aisapVars>>

CallGetElfSize ==
    /\ scan = Idle
    /\ ret' = Ret("getElfSize", getElfSize(file), 0)
    /\ UNCHANGED <<file, fixture, scan, aisapVars>>

CallGetOffsetFromElf ==
    /\ scan = Idle
    /\ \E r \in getOffsetFromElf(file) : ret' = Ret("getOffsetFromElf", r, 0)
    /\ UNCHANGED <<file, fixture, scan, aisapVars>>

\* GetOffset; for a shappimage it enters the loop of getShappImageSize.
CallGetOffset ==
    /\ scan = Idle
    /\ LET format == GetAppImageType(file)
       IN  IF format.st = "ok" /\ format.val = -2
           THEN /\ scan' = [impl |-> "go", pos |-> 0, line |-> 0]
                /\ ret' = Running("GetOffset")
           ELSE /\ scan' = scan
                /\ ret' = Ret("GetOffset", GetOffset(file), 0)
    /\ UNCHANGED <<file, fixture, aisapVars>>

StepGetShappImageSize ==
    /\ scan.impl = "go"
    /\ LET s == GoScanStep(file, scan.pos)
           examined == IF scan.pos >= Len(file) THEN scan.line
                       ELSE scan.line + 1
       IN  IF s.done
           THEN /\ ret' = Ret("GetOffset", s.res, examined)
                /\ scan' = Idle
           ELSE /\ scan' = [impl |-> "go", pos |-> s.next, line |-> examined]
                /\ ret' = ret
    /\ UNCHANGED <<file, fixture, aisapVars>>

\* The first lines of open (Zig): getKind, then the offset function of the
\* kind; for a shappimage it enters the loop of getOffsetFromShimg.
CallOpenOffset ==
    /\ scan = Idle
    /\ LET kind == getKind(file)
       IN  IF kind.st # "ok"
           THEN ret' = Ret("open", kind, 0) /\ scan' = scan
           ELSE IF kind.kind = "shimg"
           THEN /\ scan' = [impl |-> "zig", pos |-> 0, line |-> 0]
                /\ ret' = Running("open")
           ELSE /\ \E r \in getOffsetFromElf(file) : ret' = Ret("open", r, 0)
                /\ scan' = scan
    /\ UNCHANGED <<file, fixture, aisapVars>>

StepGetOffsetFromShimg ==
    /\ scan.impl = "zig"
    /\ LET s == ZigScanStep(file, scan.pos, scan.line)
           examined == IF s.examined THEN scan.line + 1 ELSE scan.line
       IN  IF s.done
           THEN /\ ret' = Ret("open", s.res, examined)
                /\ scan' = Idle
           ELSE /\ scan' = [impl |-> "zig", pos |-> s.next, line |-> examined]
                /\ ret' = ret
    /\ UNCHANGED <<file, fixture, aisapVars>>

NextOffset ==
    \/ CallGetAppImageType
    \/ CallGetKind
    \/ CallGetElfSize
    \/ CallGetOffsetFromElf
    \/ CallGetOffset
    \/ StepGetShappImageSize
    \/ CallOpenOffset
    \/ StepGetOffsetFromShimg

(***************************************************************************)
(* Go: package aisap.  The package keeps usern, homed, uid, dataDir,      *)
(* rootDir and tempDir in package-level variables (g); an AppImage holds  *)
(* its own paths and a pointer to its permissions.                         *)
(***************************************************************************)
\* How many run ids there are, so how many times NewAppImage may run.
MaxRuns == 2
\* The levels the callers pass run from -1 to MaxLevelArg.
MaxLevelArg == 4
\* How many .desktop files a mounted image may hold.
MaxDesktop == 2

Handles == {1, 2}
LevelArgs == -1..MaxLevelArg
\* The level of the permissions an image carries: 0 to 3, or -1 for none.
PermLevels == -1..3
RunIds == {"run" \o ToString(i) : i \in 1..MaxRuns}
\* The directories the callers pass to SetRootDir, SetDataDir, SetTempDir.
DirArgs == {"/srv/a"}

\* The accounts the process may run as: user.Current() and os.Getuid().
Accounts ==
    {[name |-> "alice", home |-> "/home/alice", uid |-> 1000],
     [name |-> "root", home |-> "/root", uid |-> 0]}

\* var ( usern, homed, uid, dataDir, rootDir = "/", tempDir = "/tmp" ).  The
\* package's err and mnt are written but read by nothing here, and left out.
Globals0 ==
    [usern |-> "", homed |-> "", uid |-> "", dataDir |-> "",
     rootDir |-> "/", tempDir |-> "/tmp"]

\* filepath.Join of two elements.
Join(a, b) == IF b = "" THEN a ELSE a \o "/" \o b

\* updateHome with a level bound that is off by one.
updateHomeUpTo4(gl, l, user) ==
    IF l \in {0, 1, 2, 3, 4}
    THEN LET usern == IF l \in {0, 1} THEN user.name ELSE "ai"
         IN  [st |-> "ok",
              g |-> [gl EXCEPT !.usern = usern,
                               !.homed = Join("/home", usern),
                               !.uid = ToString(user.uid)]]
    ELSE [st |-> "err", g |-> gl]

\* updateHome(l) on the globals gl, in a process of account `user`: the
\* result and the globals after it.
updateHome(gl, l, user) ==
    IF l = 1 \/ l = 0
    THEN [st |-> "ok",
          g |-> [gl EXCEPT !.usern = user.name,
                           !.homed = Join("/home", user.name),
                           !.uid = ToString(user.uid)]]
    ELSE IF l > 1 /\ l <= 3
    THEN [st |-> "ok",
          g |-> [gl EXCEPT !.usern = "ai",
                           !.homed = Join("/home", "ai"),
                           !.uid = ToString(user.uid)]]
    ELSE [st |-> "err", g |-> gl]

\* No AppImage behind a handle yet.
NoAppImage ==
    [open |-> FALSE, Path |-> "", runId |-> "", tempDir |-> "",
     mountDir |-> "", rmMountDir |-> FALSE, Offset |-> 0, Level |-> 0,
     Files |-> <<>>]

\* The record of a call: the method, the handle, its argument, how it ended.
Call(op, h, arg, st) == [op |-> op, h |-> h, arg |-> arg, st |-> st]

\* A panic ends the process.
Alive == last.st # "panic"

\* e ends with suffix.
EndsWith(e, suffix) ==
    /\ Len(e) >= Len(suffix)
    /\ SubSeq(e, Len(e) - Len(suffix) + 1, Len(e)) = suffix

\* ".desktop", and the name "AppRun".
DesktopExt == <<46, 100, 101, 115, 107, 116, 111, 112>>
AppRun == <<65, 112, 112, 82, 117, 110>>

\* The root directory of an image that holds nd .desktop files: "AppRun",
\* "a.desktop", "b.desktop", ..., in the sorted order a directory is read in.
RootListing(nd) == <<AppRun>> \o [i \in 1..nd |-> <<96 + i>> \o DesktopExt]

\* filepath.Match("*.desktop", name): the star takes any run of characters
\* (a name holds no separator), the rest is literal.
Match(name) == EndsWith(name, DesktopExt)

\* filepath.Glob(mountDir + "/*.desktop") on a mounted root: the names that
\* match, in order; nil (the empty list) and no error when none does.
Glob(names) == SelectSeq(names, Match)

\* A type 2 AppImage whose image holds nd .desktop files.
Type2Source(nd) ==
    [kind |-> "elf", class |-> 2, data |-> 1, marker |-> "type2",
     shoff |-> 191000, shentsize |-> 64, shnum |-> 3,
     root |-> RootListing(nd)]

\* The files NewAppImage is given: a type 2 AppImage with one .desktop file
\* and one with none, an ELF that is no AppImage, an empty file.
OpenSources ==
    {Type2Source(1), Type2Source(0),
     [kind |-> "elf", class |-> 2, data |-> 1, marker |-> "none",
      shoff |-> 191000, shentsize |-> 64, shnum |-> 3],
     [kind |-> "short", n |-> 0,
      base |-> [kind |-> "sh", filler |-> 0, v |-> 4096, fmt |-> "dec",
                second |-> FALSE]]}

\* helpers.MakeTemp(dir, name): the path of the directory it makes.
MakeTemp(dir, name) == dir \o "/" \o name

\* The collaborator of NewAppImage that fails in a call, if any: the first
\* or the second helpers.MakeTemp, Mount, or ioutil.ReadFile.
Failures == {"none", "MakeTemp1", "MakeTemp2", "Mount", "ReadFile"}

\* NewAppImage(src) for handle h.  runId is the random run id and fail the
\* collaborator that fails.  Once the image is mounted, fp is the list of
\* its .desktop files (fp[0] panics when there is none) and lvl the level
\* of the permissions read from it, which SetLevel is called with;
\* SetLevel's error is dropped.
NewAppImage(h, src, runId, fail) ==
    LET tempDir == MakeTemp("/tmp", ".aisapTemp_" \o runId)
        mountDir == MakeTemp(tempDir, ".mount_" \o runId)
        made == {tempDir} \cup (IF fail # "MakeTemp2" THEN {mountDir} ELSE {})
        off == GetOffset(Bytes(src))
        mounted == [os EXCEPT !.dirs = @ \cup made,
                              !.mounts = @ \cup {[dir |-> mountDir,
                                                  root |-> src.root]}]
        leave(st) ==
            /\ os' = [os EXCEPT !.dirs = @ \cup made]
            /\ last' = Call("NewAppImage", h, runId, st)
            /\ UNCHANGED <<g, ai>>
    IN  /\ Alive
        /\ ~ai[h].open
        /\ tempDir \notin os.dirs
        /\ IF fail = "MakeTemp1"
           THEN /\ last' = Call("NewAppImage", h, runId, "err")
                /\ UNCHANGED <<g, ai, os>>
           ELSE IF off.st # "ok" THEN leave("err")
           ELSE IF fail \in {"MakeTemp2", "Mount"} THEN leave("err")
           ELSE LET fp == Glob(src.root)
                IN IF Len(fp) = 0
                   THEN /\ os' = mounted
                        /\ last' = Call("NewAppImage", h, runId, "panic")
                        /\ UNCHANGED <<g, ai>>
                   ELSE \E lvl \in PermLevels :
                         /\ os' = mounted
                         /\ g' = (updateHome(g, lvl, os.user)).g
                         /\ ai' = [ai EXCEPT ![h] =
                                [open |-> TRUE, Path |-> src.kind,
                                 runId |-> runId, tempDir |-> tempDir,
                                 mountDir |-> mountDir, rmMountDir |-> TRUE,
                                 Offset |-> off.val, Level |-> lvl,
                                 Files |-> <<>>]]
                         /\ last' = Call("NewAppImage", h, runId,
                                IF fail = "ReadFile" THEN "err" ELSE "ok")
        /\ UNCHANGED offsetVars

\* SetLevel(l): updateHome first; the level is stored only if it succeeded.
SetLevel(h, l) ==
    LET home == updateHome(g, l, os.user)
    IN  /\ Alive
        /\ ai[h].open
        /\ g' = home.g
        /\ ai' = IF home.st = "ok" THEN [ai EXCEPT ![h].Level = l] ELSE ai
        /\ last' = Call("SetLevel", h, l, home.st)
        /\ UNCHANGED <<os, offsetVars>>

SetRootDir(h, d) ==
    /\ Alive
    /\ ai[h].open
    /\ g' = [g EXCEPT !.rootDir = d]
    /\ last' = Call("SetRootDir", h, d, "ok")
    /\ UNCHANGED <<ai, os, offsetVars>>

SetDataDir(h, d) ==
    /\ Alive
    /\ ai[h].open
    /\ g' = [g EXCEPT !.dataDir = d]
    /\ last' = Call("SetDataDir", h, d, "ok")
    /\ UNCHANGED <<ai, os, offsetVars>>

SetTempDir(h, d) ==
    /\ Alive
    /\ ai[h].open
    /\ g' = [g EXCEPT !.tempDir = d]
    /\ last' = Call("SetTempDir", h, d, "ok")
    /\ UNCHANGED <<ai, os, offsetVars>>

\* ":ro" and ":rw"
RoSuffix == <<58, 114, 111>>
RwSuffix == <<58, 114, 119>>

\* One turn of the loop of AddFiles on an entry of three characters or
\* more: the entry, with ":ro" appended unless it holds a ":" and its last
\* three characters are ":ro" or ":rw".
FileGrant(e) ==
    LET ex == From(e, Len(e) - 3)
    IN  IF Len(Split(e, 58)) < 2 \/ (ex # RoSuffix /\ ex # RwSuffix)
        THEN e \o RoSuffix
        ELSE e

\* AddFiles(s): s[i][len(s[i])-3:] panics (slice bounds out of range) on an
\* entry shorter than three characters, before anything is appended;
\* otherwise the grants are appended to Perms.Files.
AddFiles(h, s) ==
    /\ Alive
    /\ ai[h].open
    /\ IF \E i \in 1..Len(s) : Len(s[i]) < 3
       THEN /\ last' = Call("AddFiles", h, s, "panic")
            /\ ai' = ai
       ELSE /\ last' = Call("AddFiles", h, s, "ok")
            /\ ai' = [ai EXCEPT ![h].Files =
                         @ \o [i \in 1..Len(s) |-> FileGrant(s[i])]]
    /\ UNCHANGED <<g, os, offsetVars>>

(***************************************************************************)
(* Zig: open and loadDesktopEntry                                          *)
(***************************************************************************)
\* The position of the last "." of name, 0 when there is none.
LastDot(name) ==
    LET dots == {i \in 1..Len(name) : name[i] = 46}
    IN  IF dots = {} THEN 0 ELSE CHOOSE i \in dots : \A j \in dots : j <= i

\* std.fs.path.extension(name): from the last "." on; empty when there is
\* none or when it is the first character.
Extension(name) ==
    IF LastDot(name) <= 1 THEN <<>> ELSE From(name, LastDot(name) - 1)

\* What SquashFs.open, root.iterate or root.openFile may fail with.
ZigFailures == {"none", "SquashFs.open", "iterate", "openFile"}

\* The loop of loadDesktopEntry from entry i on: an entry whose extension
\* is not ".desktop" is skipped, another sets found and is read into buf.
\* After the loop the function returns 0; found is read by nothing.
RECURSIVE loadDesktopEntryFrom(_, _, _, _)
loadDesktopEntryFrom(names, i, found, fail) ==
    IF i > Len(names) THEN Ok(0)
    ELSE IF Extension(names[i]) # DesktopExt
    THEN loadDesktopEntryFrom(names, i + 1, found, fail)
    ELSE IF fail = "openFile" THEN Err(0, "openFile")
    ELSE loadDesktopEntryFrom(names, i + 1, TRUE, fail)

\* loadDesktopEntry on an image whose root holds `names`.
loadDesktopEntry(names, fail) ==
    IF fail = "iterate" THEN Err(0, "iterate")
    ELSE loadDesktopEntryFrom(names, 1, FALSE, fail)

\* open(allocator, file) on the file src: the kind, the offset of the
\* kind, SquashFs.open, loadDesktopEntry; then the AppImage is returned.
open(src, fail) ==
    LET f == Bytes(src)
        kind == getKind(f)
        offsets == IF kind.st # "ok" THEN {kind}
                   ELSE IF kind.kind = "shimg" THEN {getOffsetFromShimg(f)}
                   ELSE getOffsetFromElf(f)
    IN  /\ scan = Idle
        /\ file' = f
        /\ fixture' = src
        /\ \E off \in offsets :
              ret' = IF off.st # "ok" THEN Ret("open", off, 0)
                     ELSE IF fail = "SquashFs.open"
                     THEN Ret("open", Err(0, "SquashFs.open"), 0)
                     ELSE LET entry == loadDesktopEntry(src.root, fail)
                          IN  IF entry.st # "ok" THEN Ret("open", entry, 0)
                              ELSE Ret("open", OkKind(kind.kind), 0)
        /\ UNCHANGED <<scan, aisapVars>>

InitAisap ==
    /\ g = Globals0
    /\ ai = [h \in Handles |-> NoAppImage]
    /\ os \in [user : Accounts, dirs : {{}}, mounts : {{}}]
    /\ last = Call("none", 0, 0, "ok")

InitOffsetVars ==
    /\ fixture = [kind |-> "short", n |-> 0,
                  base |-> [kind |-> "sh", filler |-> 0, v |-> 4096,
                            fmt |-> "dec", second |-> FALSE]]
    /\ file = Bytes(fixture)
    /\ ret = NoCall
    /\ scan = Idle

Init == InitAisap /\ InitOffsetVars

Next ==
    \/ \E h \in Handles, src \in OpenSources, runId \in RunIds,
          fail \in Failures : NewAppImage(h, src, runId, fail)
    \/ \E h \in Handles, l \in LevelArgs : SetLevel(h, l)
    \/ \E h \in Handles, d \in DirArgs : SetRootDir(h, d)
    \/ \E h \in Handles, d \in DirArgs : SetDataDir(h, d)
    \/ \E h \in Handles, d \in DirArgs : SetTempDir(h, d)

Spec == Init /\ [][Next]_vars

InitOffset ==
    /\ fixture \in Fixtures
    /\ file = Bytes(fixture)
    /\ ret = NoCall
    /\ scan = Idle
    /\ g = Globals0
    /\ ai = [h \in Handles |-> NoAppImage]
    /\ os = [user |-> CHOOSE a \in Accounts : a.uid = 0, dirs |-> {},
             mounts |-> {}]
    /\ last = Call("none", 0, 0, "ok")

SpecOffset == InitOffset /\ [][NextOffset]_vars

(***************************************************************************)
(* SpecGrants: an AppImage that NewAppImage has returned, and AddFiles    *)
(* calls on it.                                                            *)
(***************************************************************************)
\* The longest file-grant list, and the longest argument of AddFiles.
MaxFiles == 3
MaxEntries == 2

\* "/tmp/a", "/tmp/b:rw", "/c:ro", "a:b", ":rw", "ab", ""
Entries ==
    {<<47, 116, 109, 112, 47, 97>>,
     <<47, 116, 109, 112, 47, 98, 58, 114, 119>>,
     <<47, 99, 58, 114, 111>>,
     <<97, 58, 98>>,
     <<58, 114, 119>>,
     <<97, 98>>,
     <<>>}

EntryLists == UNION {[1..n -> Entries] : n \in 1..MaxEntries}

InitGrants ==
    /\ InitOffsetVars
    /\ os \in [user : Accounts,
               dirs : {{"/tmp/.aisapTemp_run1",
                        "/tmp/.aisapTemp_run1/.mount_run1"}},
               mounts : {{[dir |-> "/tmp/.aisapTemp_run1/.mount_run1",
                           root |-> RootListing(1)]}}]
    /\ g = (updateHome(Globals0, 1, os.user)).g
    /\ ai = [h \in Handles |->
                IF h = 1
                THEN [open |-> TRUE, Path |-> "elf", runId |-> "run1",
                      tempDir |-> "/tmp/.aisapTemp_run1",
                      mountDir |-> "/tmp/.aisapTemp_run1/.mount_run1",
                      rmMountDir |-> TRUE, Offset |-> 191192, Level |-> 1,
                      Files |-> <<>>]
                ELSE NoAppImage]
    /\ last = Call("NewAppImage", 1, "run1", "ok")

NextGrants ==
    \E h \in Handles, s \in EntryLists :
        /\ Len(ai[h].Files) + Len(s) <= MaxFiles
        /\ AddFiles(h, s)

SpecGrants == InitGrants /\ [][NextGrants]_vars

(***************************************************************************)
(* SpecEntry: files whose image holds zero to MaxDesktop .desktop files,  *)
(* opened by NewAppImage (Go) and by open (Zig).                           *)
(***************************************************************************)
\* A shappimage whose image holds nd .desktop files.
ShimgSource(nd) ==
    [kind |-> "sh", filler |-> 0, v |-> 4096, fmt |-> "dec",
     second |-> FALSE, root |-> RootListing(nd)]

EntrySources ==
    OpenSources
        \cup {Type2Source(nd) : nd \in 0..MaxDesktop}
        \cup {ShimgSource(nd) : nd \in 0..MaxDesktop}

\* A process runs the Go package or the Zig one, not both.
NextEntry ==
    \/ \E h \in Handles, src \in EntrySources, runId \in RunIds,
          fail \in Failures : ret = NoCall /\ NewAppImage(h, src, runId, fail)
    \/ \E src \in EntrySources, fail \in ZigFailures :
          last.op = "none" /\ open(src, fail)

SpecEntry == Init /\ [][NextEntry]_vars

(***************************************************************************)
(* Properties                                                              *)
(***************************************************************************)
\* C1: for every file shorter than 19 bytes, detection returns an error
\* (InvalidFormat), never a container kind.
C1_ShortFileIsInvalidFormat ==
    (Len(file) < ProbeLen /\ ret.op \in {"GetAppImageType", "getKind"})
        => ret.st = "err"

\* C2: for a well-formed ELF header of either class and byte order with
\* section header table offset O, entry size S and entry count N, the ELF
\* offset functions return O + S*N and no error.
C2_ElfOffsetIsEndOfSectionTable ==
    (WellFormedElf(fixture) /\ ret.op \in {"getElfSize", "getOffsetFromElf"})
        => /\ ret.st = "ok"
           /\ ret.val = fixture.shoff + fixture.shentsize * fixture.shnum

\* The file has the ELF magic and a class byte that is neither ELFCLASS32
\* nor ELFCLASS64.
UnknownClass ==
    /\ HasMagic(file, ElfMagic, 0)
    /\ Len(file) >= 5
    /\ file[5] \notin {1, 2}

\* C3: when the class of the ELF header is neither 32-bit nor 64-bit, the
\* offset functions return an error, never a successful result (offset 0).
C3_UnknownClassIsError ==
    (UnknownClass /\ ret.st # "running"
        /\ ret.op \in {"getElfSize", "GetOffset", "getOffsetFromElf", "open"})
        => ret.st = "err"

C3_Witness ==
    /\ UnknownClass
    /\ fixture.kind = "elf" /\ fixture.marker = "type2"
    /\ ret.op = "getElfSize"
    /\ ret.st = "err"
    /\ ret.err = "unknown ELF class"

\* C4: when NewAppImage returns an error, the directories that call made are
\* gone: neither its scratch directory nor its mount directory is on disk.
C4_FailedOpenLeavesNoDirectory ==
    (last.op = "NewAppImage" /\ last.st = "err")
        => LET tempDir == MakeTemp("/tmp", ".aisapTemp_" \o last.arg)
           IN  /\ tempDir \notin os.dirs
               /\ MakeTemp(tempDir, ".mount_" \o last.arg) \notin os.dirs

\* No line among the first MaxLines of the fixture begins with the prefix.
NoMatchWithinBound ==
    fixture.fmt = "none" \/ FirstMatchLine(fixture) > MaxLines

\* C5: on a shappimage the offset functions examine at most the first 512
\* lines, and return an error when none of them begins with "sfs_offset=".
C5_ScanStopsAfterMaxLines ==
    fixture.kind = "sh"
        => /\ scan.line <= MaxLines
           /\ (ret.op \in {"GetOffset", "open"} /\ ret.st # "running")
                  => /\ ret.lines <= MaxLines
                     /\ NoMatchWithinBound => ret.st = "err"

\* C6: when the first sfs_offset line carries the value v in decimal or in
\* 0x-prefixed hexadecimal, bare or in single or double quotes, the offset
\* functions return v.
C6_OffsetLineValueIsReturned ==
    (/\ fixture.kind = "sh"
     /\ fixture.fmt \in GoodFormats
     /\ FirstMatchLine(fixture) <= MaxLines
     /\ ret.op \in {"GetOffset", "open"}
     /\ ret.st # "running")
        => ret.st = "ok" /\ ret.val = fixture.v

\* C7: SetLevel(v) succeeds exactly when 0 <= v <= 3; on success the level
\* becomes v, on failure it keeps its value, so a level within [0,3] stays
\* within [0,3].
C7_SetLevelValidatesLevel ==
    [][last'.op = "SetLevel"
          => LET h == last'.h
                 v == last'.arg
             IN  /\ last'.st = "ok" <=> (0 <= v /\ v <= 3)
                 /\ last'.st = "ok" => ai'[h].Level = v
                 /\ last'.st # "ok" => ai'[h].Level = ai[h].Level
                 /\ ai[h].Level \in 0..3 => ai'[h].Level \in 0..3]_vars

C7_Witness ==
    /\ last.op = "SetLevel"
    /\ last.arg = 4
    /\ last.st = "err"
    /\ ai[last.h].Level \in 0..3

\* C8: after a successful SetLevel(v), for v in {0,1} the username and the
\* home directory are those of the invoking account, for v in {2,3} they are
\* "ai" and /home/ai; the uid is the process's uid at every level.
C8_IdentityFollowsLevel ==
    (last.op = "SetLevel" /\ last.st = "ok")
        => /\ last.arg \in {0, 1}
                  => g.usern = os.user.name /\ g.homed = os.user.home
           /\ last.arg \in {2, 3}
                  => g.usern = "ai" /\ g.homed = "/home/ai"
           /\ g.uid = ToString(os.user.uid)

\* The grant the file-grant rule gives an entry.
ExpectedGrant(e) ==
    IF EndsWith(e, RoSuffix) \/ EndsWith(e, RwSuffix) THEN e
    ELSE e \o RoSuffix

\* C9: AddFiles(entries) appends one grant per entry, in order, to the
\* grants already there: the entry itself when it ends with ":ro" or ":rw",
\* else the entry with ":ro" appended; for every entry, short ones included.
C9_AddFilesAppendsGrants ==
    [][last'.op = "AddFiles"
          => /\ last'.st = "ok"
             /\ ai'[last'.h].Files =
                    ai[last'.h].Files
                        \o [i \in 1..Len(last'.arg) |->
                               ExpectedGrant(last'.arg[i])]]_vars

\* The identity and the directory settings an AppImage runs with.
Settings(h) ==
    [usern |-> g.usern, homed |-> g.homed, uid |-> g.uid,
     rootDir |-> g.rootDir, dataDir |-> g.dataDir, tempDir |-> g.tempDir]

\* C10: with two AppImages open, a SetLevel, SetRootDir, SetDataDir or
\* SetTempDir call on one leaves the settings of the other unchanged.
C10_SettingsArePerAppImage ==
    [][(/\ last'.op \in {"SetLevel", "SetRootDir", "SetDataDir", "SetTempDir"}
        /\ \A h \in Handles : ai[h].open)
          => \A o \in Handles \ {last'.h} : Settings(o)' = Settings(o)]_vars

\* The image mounted on the mount directory of run runId holds no .desktop
\* file.
MountedWithoutEntry(runId) ==
    \E m \in os.mounts :
        /\ m.dir = MakeTemp(MakeTemp("/tmp", ".aisapTemp_" \o runId),
                            ".mount_" \o runId)
        /\ \A i \in 1..Len(m.root) : ~EndsWith(m.root[i], DesktopExt)

\* C11: when the root of the mounted image holds no .desktop file, opening
\* fails with an error: NewAppImage neither panics nor returns an AppImage,
\* and open returns no AppImage.
C11_NoDesktopFileIsEntryMissing ==
    /\ (last.op = "NewAppImage" /\ MountedWithoutEntry(last.arg))
           => last.st = "err"
    /\ (ret.op = "open" /\ ret.st = "ok")
           => \E i \in 1..Len(fixture.root) :
                  EndsWith(fixture.root[i], DesktopExt)

====
